---------------------------- MODULE Spec2Model ----------------------------
(***************************************************************************)
(* Model of storage_adapter.js, the knex/PostgreSQL storage adapter of an  *)
(* oidc-provider deployment.  The source file holds two versions of the    *)
(* module: the one with the scheduled purge (lines 1-333), which is        *)
(* modelled in full, and an older one whose upsert awaits the purge of its *)
(* own table (lines 335-596); of the older one the model has what differs, *)
(* its counter, its upsert and its cleanVolatileData() (SpecSync).         *)
(*                                                                         *)
(* JavaScript runs every handler to its next "await" without interleaving, *)
(* so each action below is one such segment: the database statement the    *)
(* handler was waiting for executes (atomically, as one SQL statement) and *)
(* the handler continues up to the statement it awaits next.               *)
(*                                                                         *)
(* Nullable values (SQL NULL, JS undefined/null) are options: <<>> is      *)
(* null and <<v>> is the value v.  JSON objects are functions from the     *)
(* keys they hold to their values.  Instants are milliseconds.             *)
(***************************************************************************)
EXTENDS Integers, Sequences, FiniteSets, TLC

VARIABLES
    db,                                       \* table name -> set of rows
    now,                                      \* the clock, in ms
    purge_single_execution_protection_delay,  \* module variable, line 30
    purge_every_upserts_count,                \* module variable, line 31
    upserts_since_purge_count,                \* module variable, line 32
    purge_scheduled,                          \* module variable, line 33
    purge_last_date,                          \* module variable, line 34
    purge_period,                             \* module variable, line 359
    upserts_count,                            \* module variable, line 360
    calls,                                    \* caller slot -> the call in flight
    sched,                                    \* the live schedulePurge() invocation
    sweeps,                                   \* purge() and deleteVolatileRecords() invocations with deletions outstanding
    faults,                                   \* storage failures injected so far
    upserts_issued,                           \* history: upsert calls made so far
    outcome                                   \* history: the call that returned last

vars == <<db, now, purge_single_execution_protection_delay,
          purge_every_upserts_count, upserts_since_purge_count,
          purge_scheduled, purge_last_date, purge_period, upserts_count,
          calls, sched, sweeps, faults, upserts_issued, outcome>>

----------------------------------------------------------------------------
(* Bounds of the model.                                                    *)

MaxTicks == 1         \* the clock runs from 0 to MaxTicks * TickMs
TickMs == 1000        \* one step of the clock
MaxUpserts == 2       \* upsert calls in one behaviour
MaxFaults == 2        \* storage statements that may fail in one behaviour
NumVolatile == 2      \* how many of the volatile types the model instantiates

(* Program constants.                                                      *)

DefaultDelay == 2000      \* purge_single_execution_protection_delay
DefaultEvery == 1000      \* purge_every_upserts_count
DefaultPeriod == 1000     \* purge_period
MsPerSecond == 1000       \* expiresIn * 1000

NULL == <<>>
Some(v) == <<v>>
IsNull(o) == o = <<>>
Val(o) == o[1]

ALL_VOLATILE_TYPES ==
    << "Session", "AccessToken", "AuthorizationCode", "RefreshToken",
       "ClientCredentials", "InitialAccessToken", "RegistrationAccessToken",
       "DeviceCode", "Interaction", "ReplayDetection",
       "PushedAuthorizationRequest" >>

VOLATILE_TYPES == { ALL_VOLATILE_TYPES[i] : i \in 1..NumVolatile }

ModelNames == VOLATILE_TYPES \cup {"Client"}

(* to-snake-case on the model names, with the schema prefix.               *)
toSnakeCase(name) ==
    CASE name = "Session" -> "session"
      [] name = "AccessToken" -> "access_token"
      [] name = "AuthorizationCode" -> "authorization_code"
      [] name = "RefreshToken" -> "refresh_token"
      [] name = "ClientCredentials" -> "client_credentials"
      [] name = "InitialAccessToken" -> "initial_access_token"
      [] name = "RegistrationAccessToken" -> "registration_access_token"
      [] name = "DeviceCode" -> "device_code"
      [] name = "Interaction" -> "interaction"
      [] name = "ReplayDetection" -> "replay_detection"
      [] name = "PushedAuthorizationRequest" -> "pushed_authorization_request"
      [] name = "Client" -> "client"

table_name(name) == <<"oidc", toSnakeCase(name)>>

Tables == { table_name(n) : n \in ModelNames }
VolatileTables == { table_name(n) : n \in VOLATILE_TYPES }

(* Caller slots: the calls that may be in flight together.  SCHED names the *)
(* schedulePurge() invocation as the party awaiting a purge().              *)
Slots == {"c1", "c2"}
SCHED == "schedulePurge"

(* Inputs the callers draw from.                                           *)
Ids == {"a", "b"}
Targets ==
    { <<"Session", "a">>, <<"Session", "b">>, <<"AccessToken", "a">>,
      <<"Client", "a">> }
Payloads ==
    { [grantId |-> "G1", uid |-> "U1"],
      [grantId |-> "G2", userCode |-> "X1"] }
ExpiresIns == {NULL, Some(0), Some(1)}
ConsumeTargets == { <<"Session", "a">>, <<"Client", "a">> }
Uids == {"U1", "U2"}
UserCodes == {"X1"}
GrantIds == {"G1", "G2"}
Thresholds == {Some(0), Some(1), Some(2)}
Delays == {NULL, Some(1000)}
GetIds == {NULL, Some({}), Some({"a"})}
FaultTargets == { <<"Session", "a">>, <<"AccessToken", "a">> }
PurgePeriods == {1, 2}
ConcTargets == { <<"Session", "a">>, <<"Client", "a">> }
ConcExpiresIns == {NULL, Some(1)}
ConcThresholds == {Some(1), Some(2)}
LookupTargets == { <<"Session", "a">> }
LookupUids == {"U1"}
MaintenanceTargets ==
    { <<"Session", "a">>, <<"AccessToken", "a">>, <<"Client", "a">> }
FaultExpiresIns == {NULL, Some(-1), Some(0), Some(1)}
FaultPayloads == { [grantId |-> "G1", uid |-> "U1"] }

----------------------------------------------------------------------------
(* JavaScript and SQL primitives.                                          *)

(* JS truthiness of an optional number: undefined and 0 are falsy.         *)
Truthy(o) == ~IsNull(o) /\ Val(o) # 0

(* new Date().toISOString(): a string, which is not an instant any more.   *)
toISOString(ms) == <<"iso8601", ms>>

(* data @> '{"key": "value"}': the JSON object holds key with that value.  *)
JsonContains(data, key, value) ==
    key \in DOMAIN data /\ data[key] = value

(* SetKey that makes a new object of the one key.                          *)
SetKey_Alone(data, key, value) == [k \in {key} |-> value]

(* obj.key = value on a JSON object.                                       *)
SetKey(data, key, value) ==
    [k \in DOMAIN data \cup {key} |-> IF k = key THEN value ELSE data[k]]

(* whereNull('expires_at').orWhere('expires_at', '>', date)                *)
NotExpiredAt(row, date) ==
    IsNull(row.expires_at) \/ Val(row.expires_at) > date

(* ExpiredAt with NULL taken for an instant long past.                     *)
ExpiredAt_NullIsPast(row, date) ==
    IsNull(row.expires_at) \/ Val(row.expires_at) <= date

(* where('expires_at', '<=', date): NULL compares as unknown, not true.    *)
ExpiredAt(row, date) ==
    ~IsNull(row.expires_at) /\ Val(row.expires_at) <= date

(* SELECT * FROM table WHERE id = id                                       *)
SelectById(table, id) == { r \in db[table] : r.id = id }

(* The default of the created_at column: the instant of the INSERT.        *)
DefaultCreatedAt == now

(* INSERT of update_props: the columns it does not name take their         *)
(* defaults, created_at its own, the others NULL.                          *)
InsertRow(update_props) ==
    [ id |-> update_props.id,
      data |-> update_props.data,
      created_at |-> DefaultCreatedAt,
      updated_at |-> NULL,
      expires_at |-> IF "expires_at" \in DOMAIN update_props
                     THEN Some(update_props.expires_at) ELSE NULL ]

(* The primary key: an INSERT of an id the table holds is refused.         *)
InsertConflicts(table, id) == SelectById(table, id) # {}

(* UPDATE ... SET <the columns update_props names> on one row.             *)
UpdateRow(row, update_props) ==
    [ id |-> row.id,
      data |-> IF "data" \in DOMAIN update_props
               THEN update_props.data ELSE row.data,
      created_at |-> row.created_at,
      updated_at |-> IF "updated_at" \in DOMAIN update_props
                     THEN Some(update_props.updated_at) ELSE row.updated_at,
      expires_at |-> IF "expires_at" \in DOMAIN update_props
                     THEN Some(update_props.expires_at) ELSE row.expires_at ]

(* UPDATE table SET ... WHERE id = id                                      *)
UpdateById(table, id, update_props) ==
    { IF r.id = id THEN UpdateRow(r, update_props) ELSE r : r \in db[table] }

(* DeleteById without its WHERE.                                           *)
DeleteById_Every(table, id) == {}

(* DELETE FROM table WHERE id = id                                         *)
DeleteById(table, id) == { r \in db[table] : r.id # id }

(* DeleteByGrantId with the filter of the lookups added: it spares the     *)
(* expired rows.                                                           *)
DeleteByGrantId_Unexpired(table, grantId) ==
    { r \in db[table] :
        ~(JsonContains(r.data, "grantId", grantId) /\ NotExpiredAt(r, now)) }

(* DELETE FROM table WHERE data @> '{"grantId": "<grantId>"}'              *)
DeleteByGrantId(table, grantId) ==
    { r \in db[table] : ~JsonContains(r.data, "grantId", grantId) }

(* DeleteExpired with no date in its condition: every row with a ttl goes. *)
DeleteExpired_AnyTtl(table, date) ==
    { r \in db[table] : IsNull(r.expires_at) }

(* DeleteExpired with expires_at < date for its condition.                 *)
DeleteExpired_Before(table, date) ==
    { r \in db[table] : ~(~IsNull(r.expires_at) /\ Val(r.expires_at) < date) }

(* DELETE FROM table WHERE expires_at <= date                              *)
DeleteExpired(table, date) == { r \in db[table] : ~ExpiredAt(r, date) }

(* The rows a lookup's query selects, and what the lookup returns of them: *)
(* null for no row, else the data of the first row, in an order the query  *)
(* does not fix.                                                           *)
(* The date in the query is new Date() of the client, taken when the       *)
(* query is built; the rows are those of the instant the SELECT executes.  *)
FindRecordAt(table, id, date) ==
    { r \in db[table] : r.id = id /\ NotExpiredAt(r, date) }

FindByRecordAt(table, key, value, date) ==
    { r \in db[table] : JsonContains(r.data, key, value) /\ NotExpiredAt(r, date) }

(* The same for a query built and executed at one instant.                 *)
FindRecord(table, id) == FindRecordAt(table, id, now)

FindByRecord(table, key, value) == FindByRecordAt(table, key, value, now)

FirstData(record) ==
    IF record = {} THEN {NULL} ELSE { Some(r.data) : r \in record }

(* get({ids}): whereIn('id', ids) when ids is given.                       *)
GetRows(table, ids) ==
    IF IsNull(ids) THEN db[table] ELSE { r \in db[table] : r.id \in Val(ids) }

----------------------------------------------------------------------------
(* The state after the module is loaded.                                   *)

Idle == [pc |-> "idle"]
SchedIdle == [phase |-> "idle", due |-> 0]

Init ==
    /\ db = [t \in Tables |-> {}]
    /\ now = 0
    /\ purge_single_execution_protection_delay = DefaultDelay
    /\ purge_every_upserts_count = DefaultEvery
    /\ upserts_since_purge_count = 0
    /\ purge_scheduled = FALSE
    /\ purge_last_date = NULL
    /\ purge_period = DefaultPeriod
    /\ upserts_count = 0
    /\ calls = [c \in Slots |-> Idle]
    /\ sched = SchedIdle
    /\ sweeps = {}
    /\ faults = 0
    /\ upserts_issued = 0
    /\ outcome = [op |-> "none", table |-> <<>>, key |-> "", ok |-> TRUE]

purge_vars == <<purge_scheduled, purge_last_date, sched, sweeps>>
config_vars == <<purge_single_execution_protection_delay, purge_every_upserts_count>>
sync_vars == <<purge_period, upserts_count>>

(* History: the promise of a write call settles, fulfilled (ok) or         *)
(* rejected with an error.                                                 *)
Settled(op, table, key, ok) == [op |-> op, table |-> table, key |-> key, ok |-> ok]

(* Every invocation of purge(), deleteVolatileRecords() or                 *)
(* cleanVolatileData() has DELETE statements of its own: its record gets   *)
(* a serial number no invocation with statements outstanding has, so two   *)
(* invocations alike in all else are two records.                          *)
FreshSerial ==
    CHOOSE n \in 0..Cardinality(sweeps) : \A s \in sweeps : s.serial # n

(* History: a caller's write has landed while these purges were running.   *)
Overlapped(S) ==
    { IF s.op = "purge" THEN [s EXCEPT !.dirty = TRUE] ELSE s : s \in S }

----------------------------------------------------------------------------
(* The purge scheduler and executor.                                       *)

(* The Node.js process is running.  It ends when the promise of the        *)
(* schedulePurge() that upsert does not await (line 72) is rejected and no *)
(* 'unhandledRejection' listener is installed: what has not executed by    *)
(* then never does.                                                        *)
ProcessRunning == sched.phase # "exited"

(* purge(), up to its await: the instant is taken once, recorded as the    *)
(* last purge date, and one DELETE per volatile type is issued.            *)
purge(owner) ==
    /\ purge_last_date' = Some(now)
    /\ sweeps' = sweeps \cup
           { [op |-> "purge", serial |-> FreshSerial, owner |-> owner, now |-> now,
              pending |-> VOLATILE_TYPES, settled |-> FALSE, pre |-> db,
              dirty |-> FALSE] }

(* schedulePurge() without its test of purge_scheduled.                    *)
schedulePurge_Unguarded(count) ==
    /\ purge_scheduled' = TRUE
    /\ upserts_since_purge_count' = 0
    /\ sched' = [phase |-> "purging", due |-> sched.due]
    /\ purge(SCHED)

(* schedulePurge(), up to its await, called with the counter at count.     *)
schedulePurge(count) ==
    IF purge_scheduled
    THEN /\ upserts_since_purge_count' = count
         /\ UNCHANGED purge_vars
    ELSE /\ purge_scheduled' = TRUE
         /\ upserts_since_purge_count' = 0
         /\ sched' = [phase |-> "purging", due |-> sched.due]
         /\ purge(SCHED)

(* Whether upsert's counter test sends it into schedulePurge().            *)
PurgeDue(count) == count >= purge_every_upserts_count

(* What the awaiting party does when purge() settles: schedulePurge()      *)
(* starts the protection delay, or dies of the error with the flag set; a  *)
(* caller of purge() gets the result.  Nothing handles the rejection of    *)
(* schedulePurge(): with an 'unhandledRejection' listener installed the    *)
(* process goes on, without one (the default) it ends there.               *)
PurgeSettled(owner, ok) ==
    IF owner = SCHED
    THEN /\ IF ok
            THEN sched' = [phase |-> "cooldown",
                           due |-> now + purge_single_execution_protection_delay]
            ELSE \E phase \in {"rejected", "exited"} :
                     sched' = [phase |-> phase, due |-> sched.due]
         /\ UNCHANGED <<calls, outcome>>
    ELSE /\ calls' = [calls EXCEPT ![owner] = Idle]
         /\ outcome' = Settled("purge", <<>>, "", ok)
         /\ UNCHANGED sched

(* One of purge()'s DELETE statements executes, or fails.  Promise.all     *)
(* settles at the first failure or when every statement has succeeded;     *)
(* the statements still outstanding run either way.                        *)
PurgeStatement(s, name, ok) ==
    LET pending == s.pending \ {name}
        settles == ~s.settled /\ (~ok \/ pending = {})
        rest == sweeps \ {s}
    IN  /\ ProcessRunning
        /\ s \in sweeps
        /\ s.op = "purge"
        /\ name \in s.pending
        /\ IF ok
           THEN /\ db' = [db EXCEPT ![table_name(name)] =
                              DeleteExpired(table_name(name), s.now)]
                /\ faults' = faults
           ELSE /\ faults < MaxFaults
                /\ faults' = faults + 1
                /\ db' = db
        /\ sweeps' = IF pending = {} THEN rest
                     ELSE rest \cup { [s EXCEPT !.pending = pending,
                                                !.settled = @ \/ settles] }
        /\ IF settles THEN PurgeSettled(s.owner, ok)
                      ELSE UNCHANGED <<calls, outcome, sched>>
        /\ UNCHANGED <<now, config_vars, sync_vars, upserts_since_purge_count,
                       purge_scheduled, purge_last_date, upserts_issued>>

(* delay(): the timer of the protection delay fires, no sooner than due.   *)
DelayElapsed ==
    /\ sched.phase = "cooldown"
    /\ now >= sched.due
    /\ purge_scheduled' = FALSE
    /\ sched' = [phase |-> "idle", due |-> sched.due]
    /\ UNCHANGED <<db, now, config_vars, sync_vars, upserts_since_purge_count,
                   purge_last_date, calls, sweeps, faults, upserts_issued, outcome>>

(* StorageAdapter.purge() called by a caller.                              *)
PurgeCall(c) ==
    /\ ProcessRunning
    /\ calls[c].pc = "idle"
    /\ purge(c)
    /\ calls' = [calls EXCEPT ![c] = [pc |-> "purge", op |-> "purge"]]
    /\ UNCHANGED <<db, now, config_vars, sync_vars, upserts_since_purge_count,
                   purge_scheduled, sched, faults, upserts_issued, outcome>>

(* setPurgeProperties(props): a falsy property is left as it was.          *)
setPurgeProperties(props) ==
    /\ ProcessRunning
    /\ purge_single_execution_protection_delay' =
           IF Truthy(props.purge_single_execution_protection_delay)
           THEN Val(props.purge_single_execution_protection_delay)
           ELSE purge_single_execution_protection_delay
    /\ purge_every_upserts_count' =
           IF Truthy(props.purge_every_upserts_count)
           THEN Val(props.purge_every_upserts_count)
           ELSE purge_every_upserts_count
    /\ UNCHANGED <<db, now, sync_vars, upserts_since_purge_count, purge_vars,
                   calls, faults, upserts_issued, outcome>>

(* getPurgeInfo()                                                          *)
getPurgeInfo ==
    [ purge_single_execution_protection_delay |->
          purge_single_execution_protection_delay,
      purge_every_upserts_count |-> purge_every_upserts_count,
      upserts_since_purge_count |-> upserts_since_purge_count,
      purge_scheduled |-> purge_scheduled,
      purge_last_date |-> purge_last_date ]

(* A call of getPurgeInfo(): it reads, and changes nothing.                *)
GetPurgeInfo == ProcessRunning /\ UNCHANGED vars

(* Time passes.                                                            *)
Tick ==
    /\ now + TickMs <= MaxTicks * TickMs
    /\ now' = now + TickMs
    /\ UNCHANGED <<db, config_vars, sync_vars, upserts_since_purge_count, purge_vars,
                   calls, faults, upserts_issued, outcome>>

----------------------------------------------------------------------------
(* The record store.                                                       *)

(* upsert's update_props before the existence check.                       *)
UpdateProps(payload, expiresIn) ==
    IF Truthy(expiresIn)
    THEN [data |-> payload, expires_at |-> now + Val(expiresIn) * MsPerSecond]
    ELSE [data |-> payload]

(* upsert(id, payload, expiresIn) up to its first await: the counter, the  *)
(* purge it may schedule (not awaited), update_props.                      *)
UpsertCall(c, name, id, payload, expiresIn) ==
    LET count == upserts_since_purge_count + 1 IN
    /\ ProcessRunning
    /\ calls[c].pc = "idle"
    /\ upserts_issued' = upserts_issued + 1
    /\ IF PurgeDue(count)
       THEN schedulePurge(count)
       ELSE /\ upserts_since_purge_count' = count
            /\ UNCHANGED purge_vars
    /\ calls' = [calls EXCEPT ![c] =
                    [pc |-> "upsert_select", op |-> "upsert",
                     table |-> table_name(name), id |-> id,
                     expiresIn |-> expiresIn, at |-> now,
                     update_props |-> UpdateProps(payload, expiresIn),
                     scheduled |-> PurgeDue(count) /\ ~purge_scheduled]]
    /\ UNCHANGED <<db, now, config_vars, sync_vars, faults, outcome>>

(* What upsert awaits before its existence check: nothing but the query.   *)
UpsertResumes(c) == calls[c].pc = "upsert_select"

(* Whether upsert is fulfilled, from whether its own statement succeeded.  *)
UpsertFulfilled(c, statement_ok) == statement_ok

UpsertReturns(c, statement_ok) ==
    /\ calls' = [calls EXCEPT ![c] = Idle]
    /\ outcome' = Settled("upsert", calls[c].table, calls[c].id,
                           UpsertFulfilled(c, statement_ok))

(* The existence check has run: upsert goes on to the update or to the     *)
(* insert, or is rejected with the query's error.                          *)
UpsertSelect(c, ok) ==
    LET call == calls[c]
        record == SelectById(call.table, call.id)
    IN  /\ ProcessRunning
        /\ UpsertResumes(c)
        /\ IF ok
           THEN /\ faults' = faults
                /\ calls' = [calls EXCEPT ![c] =
                       IF record # {}
                       THEN [call EXCEPT !.pc = "upsert_update",
                                !.update_props =
                                    [k \in DOMAIN @ \cup {"updated_at"} |->
                                        IF k = "updated_at" THEN now ELSE @[k]]]
                       ELSE [call EXCEPT !.pc = "upsert_insert",
                                !.update_props =
                                    [k \in DOMAIN @ \cup {"id"} |->
                                        IF k = "id" THEN call.id ELSE @[k]]]]
                /\ outcome' = outcome
           ELSE /\ faults < MaxFaults
                /\ faults' = faults + 1
                /\ UpsertReturns(c, FALSE)
        /\ UNCHANGED <<db, now, config_vars, sync_vars, upserts_since_purge_count, purge_vars, upserts_issued>>

(* The UPDATE has run, on the rows that still have the id.                 *)
UpsertUpdate(c, ok) ==
    LET call == calls[c] IN
    /\ ProcessRunning
    /\ call.pc = "upsert_update"
    /\ IF ok
       THEN /\ db' = [db EXCEPT ![call.table] =
                          UpdateById(call.table, call.id, call.update_props)]
            /\ sweeps' = Overlapped(sweeps)
            /\ faults' = faults
            /\ UpsertReturns(c, TRUE)
       ELSE /\ faults < MaxFaults
            /\ faults' = faults + 1
            /\ UNCHANGED <<db, sweeps>>
            /\ UpsertReturns(c, FALSE)
    /\ UNCHANGED <<now, config_vars, sync_vars, upserts_since_purge_count,
                   purge_scheduled, purge_last_date, sched, upserts_issued>>

(* The INSERT has run, or was refused.                                     *)
UpsertInsert(c, ok) ==
    LET call == calls[c] IN
    /\ ProcessRunning
    /\ call.pc = "upsert_insert"
    /\ IF ok /\ ~InsertConflicts(call.table, call.id)
       THEN /\ db' = [db EXCEPT ![call.table] = @ \cup {InsertRow(call.update_props)}]
            /\ sweeps' = Overlapped(sweeps)
            /\ faults' = faults
            /\ UpsertReturns(c, TRUE)
       ELSE /\ ok \/ faults < MaxFaults
            /\ faults' = IF ok THEN faults ELSE faults + 1
            /\ UNCHANGED <<db, sweeps>>
            /\ UpsertReturns(c, FALSE)
    /\ UNCHANGED <<now, config_vars, sync_vars, upserts_since_purge_count,
                   purge_scheduled, purge_last_date, sched, upserts_issued>>

(* The older version's setPurgePeriod(count).                              *)
setPurgePeriod(count) ==
    /\ purge_period' = count
    /\ UNCHANGED <<db, now, config_vars, upserts_count, upserts_since_purge_count,
                   purge_vars, calls, faults, upserts_issued, outcome>>

(* The older version's upsert(id, payload, expiresIn) up to its first      *)
(* await: at the threshold that is purgeExpired() on its own table, whose  *)
(* query takes its date here; otherwise the existence check.               *)
UpsertCallSync(c, name, id, payload, expiresIn) ==
    LET count == upserts_count + 1 IN
    /\ calls[c].pc = "idle"
    /\ upserts_issued' = upserts_issued + 1
    /\ IF count >= purge_period
       THEN /\ upserts_count' = 0
            /\ calls' = [calls EXCEPT ![c] =
                    [pc |-> "upsert_purge", op |-> "upsert",
                     table |-> table_name(name), id |-> id,
                     expiresIn |-> expiresIn, payload |-> payload,
                     date |-> now, scheduled |-> TRUE]]
       ELSE /\ upserts_count' = count
            /\ calls' = [calls EXCEPT ![c] =
                    [pc |-> "upsert_select", op |-> "upsert",
                     table |-> table_name(name), id |-> id,
                     expiresIn |-> expiresIn, at |-> now,
                     update_props |-> UpdateProps(payload, expiresIn),
                     scheduled |-> FALSE]]
    /\ UNCHANGED <<db, now, config_vars, purge_period, upserts_since_purge_count,
                   purge_vars, faults, outcome>>

(* The DELETE of the purgeExpired() an upsert awaits has run: the upsert   *)
(* goes on to update_props and its existence check, or is rejected with    *)
(* the DELETE's error.                                                     *)
PurgeExpired(c, ok) ==
    LET call == calls[c] IN
    /\ call.pc = "upsert_purge"
    /\ IF ok
       THEN /\ db' = [db EXCEPT ![call.table] = DeleteExpired(call.table, call.date)]
            /\ faults' = faults
            /\ calls' = [calls EXCEPT ![c] =
                    [pc |-> "upsert_select", op |-> "upsert",
                     table |-> call.table, id |-> call.id,
                     expiresIn |-> call.expiresIn, at |-> now,
                     update_props |-> UpdateProps(call.payload, call.expiresIn),
                     scheduled |-> TRUE]]
            /\ outcome' = outcome
       ELSE /\ faults < MaxFaults
            /\ faults' = faults + 1
            /\ db' = db
            /\ calls' = [calls EXCEPT ![c] = Idle]
            /\ outcome' = Settled("upsert", call.table, call.id, FALSE)
    /\ UNCHANGED <<now, config_vars, sync_vars, upserts_since_purge_count,
                   purge_vars, upserts_issued>>

store_frame == <<now, config_vars, sync_vars, upserts_since_purge_count, purge_vars, faults,
                upserts_issued>>

(* History: a lookup returns value, or is rejected with the error of its   *)
(* SELECT.                                                                 *)
Returned(op, table, key, value) ==
    [op |-> op, table |-> table, key |-> key, ok |-> TRUE, value |-> value]

read_frame == <<db, now, config_vars, sync_vars, upserts_since_purge_count,
                purge_vars, upserts_issued>>

(* A lookup up to its await: the query is built, with the date of this     *)
(* instant in it.                                                          *)
LookupCall(c, op, name, key) ==
    /\ ProcessRunning
    /\ calls[c].pc = "idle"
    /\ calls' = [calls EXCEPT ![c] =
                    [pc |-> "lookup", op |-> op, name |-> name,
                     table |-> table_name(name), key |-> key, date |-> now]]
    /\ UNCHANGED <<read_frame, faults, outcome>>

(* The SELECT of a lookup has run and the lookup returns one of values, or *)
(* the SELECT has failed.                                                  *)
LookupSelect(c, op, values, ok) ==
    LET call == calls[c] IN
    /\ ProcessRunning
    /\ call.pc = "lookup"
    /\ call.op = op
    /\ IF ok
       THEN /\ \E value \in values :
                   outcome' = Returned(op, call.table, call.key, value)
            /\ faults' = faults
       ELSE /\ faults < MaxFaults
            /\ faults' = faults + 1
            /\ outcome' = Settled(op, call.table, call.key, FALSE)
    /\ calls' = [calls EXCEPT ![c] = Idle]
    /\ UNCHANGED read_frame

(* find(id), its query built at date.                                      *)
find(name, id, date) == FirstData(FindRecordAt(table_name(name), id, date))

(* FindCall counting itself as a write does: the counter, and at the       *)
(* threshold schedulePurge().                                              *)
FindCall_Counting(c, name, id) ==
    LET count == upserts_since_purge_count + 1 IN
    /\ ProcessRunning
    /\ calls[c].pc = "idle"
    /\ calls' = [calls EXCEPT ![c] =
                    [pc |-> "lookup", op |-> "find", name |-> name,
                     table |-> table_name(name), key |-> id, date |-> now]]
    /\ IF PurgeDue(count)
       THEN schedulePurge(count)
       ELSE /\ upserts_since_purge_count' = count
            /\ UNCHANGED purge_vars
    /\ UNCHANGED <<db, now, config_vars, sync_vars, faults, upserts_issued, outcome>>

FindCall(c, name, id) == LookupCall(c, "find", name, id)

FindSelect(c, ok) ==
    LookupSelect(c, "find", find(calls[c].name, calls[c].key, calls[c].date), ok)

(* findByUid(uid), its query built at date.                                *)
findByUid(name, uid, date) ==
    FirstData(FindByRecordAt(table_name(name), "uid", uid, date))

FindByUidCall(c, name, uid) == LookupCall(c, "findByUid", name, uid)

FindByUidSelect(c, ok) ==
    LookupSelect(c, "findByUid",
                 findByUid(calls[c].name, calls[c].key, calls[c].date), ok)

(* findByUserCode(userCode), its query built at date.                      *)
findByUserCode(name, userCode, date) ==
    FirstData(FindByRecordAt(table_name(name), "userCode", userCode, date))

FindByUserCodeCall(c, name, userCode) ==
    LookupCall(c, "findByUserCode", name, userCode)

FindByUserCodeSelect(c, ok) ==
    LookupSelect(c, "findByUserCode",
                 findByUserCode(calls[c].name, calls[c].key, calls[c].date), ok)

(* ConsumeSelect with record[0]?.data || {} for its read: on no row it     *)
(* goes on with an empty object, and its UPDATE then matches no row.       *)
ConsumeSelect_Lenient(c, name, id) ==
    LET table == table_name(name)
        record == SelectById(table, id)
        datas == IF record = {} THEN { <<>> } ELSE { r.data : r \in record }
    IN  /\ ProcessRunning
        /\ calls[c].pc = "idle"
        /\ \E d \in datas :
               calls' = [calls EXCEPT ![c] =
                   [pc |-> "consume_update", op |-> "consume",
                    table |-> table, id |-> id, record |-> d,
                    data |-> SetKey(d, "consumed", toISOString(now))]]
        /\ outcome' = outcome
        /\ UNCHANGED <<db, now, config_vars, sync_vars, upserts_since_purge_count,
                       purge_vars, faults, upserts_issued>>

(* consume(id) up to its UPDATE: the row is read whatever its expiration;  *)
(* record[0].data of no row throws, which rejects the call.                *)
ConsumeSelect(c, name, id) ==
    LET table == table_name(name)
        record == SelectById(table, id)
    IN  /\ ProcessRunning
        /\ calls[c].pc = "idle"
        /\ IF record = {}
           THEN /\ outcome' = Settled("consume", table, id, FALSE)
                /\ calls' = calls
           ELSE /\ \E r \in record :
                    calls' = [calls EXCEPT ![c] =
                        [pc |-> "consume_update", op |-> "consume",
                         table |-> table, id |-> id, record |-> r,
                         data |-> SetKey(r.data, "consumed", toISOString(now))]]
                /\ outcome' = outcome
        /\ UNCHANGED <<db, store_frame>>

(* consume's UPDATE of data has run.                                       *)
ConsumeUpdate(c) ==
    LET call == calls[c] IN
    /\ ProcessRunning
    /\ call.pc = "consume_update"
    /\ db' = [db EXCEPT ![call.table] =
                  UpdateById(call.table, call.id, [data |-> call.data])]
    /\ sweeps' = Overlapped(sweeps)
    /\ calls' = [calls EXCEPT ![c] = Idle]
    /\ outcome' = Settled("consume", call.table, call.id, TRUE)
    /\ UNCHANGED <<now, config_vars, sync_vars, upserts_since_purge_count,
                   purge_scheduled, purge_last_date, sched, faults, upserts_issued>>

(* destroy(id)                                                             *)
Destroy(name, id) ==
    /\ ProcessRunning
    /\ db' = [db EXCEPT ![table_name(name)] = DeleteById(table_name(name), id)]
    /\ sweeps' = Overlapped(sweeps)
    /\ outcome' = Settled("destroy", table_name(name), id, TRUE)
    /\ UNCHANGED <<now, config_vars, sync_vars, upserts_since_purge_count,
                   purge_scheduled, purge_last_date, sched, calls, faults,
                   upserts_issued>>

(* revokeByGrantId(grantId)                                                *)
RevokeByGrantId(name, grantId) ==
    /\ ProcessRunning
    /\ db' = [db EXCEPT ![table_name(name)] =
                  DeleteByGrantId(table_name(name), grantId)]
    /\ sweeps' = Overlapped(sweeps)
    /\ outcome' = Settled("revokeByGrantId", table_name(name), grantId, TRUE)
    /\ UNCHANGED <<now, config_vars, sync_vars, upserts_since_purge_count,
                   purge_scheduled, purge_last_date, sched, calls, faults,
                   upserts_issued>>

(* destroyAll(): its one DELETE empties the table, or fails and the call   *)
(* is rejected with the table as it was.                                   *)
DestroyAll(name, ok) ==
    /\ ProcessRunning
    /\ IF ok
       THEN /\ db' = [db EXCEPT ![table_name(name)] = {}]
            /\ sweeps' = Overlapped(sweeps)
            /\ faults' = faults
       ELSE /\ faults < MaxFaults
            /\ faults' = faults + 1
            /\ UNCHANGED <<db, sweeps>>
    /\ outcome' = Settled("destroyAll", table_name(name), "", ok)
    /\ UNCHANGED <<now, config_vars, sync_vars, upserts_since_purge_count,
                   purge_scheduled, purge_last_date, sched, calls,
                   upserts_issued>>

(* deleteVolatileRecords(), and cleanVolatileData() of the older version,  *)
(* up to the await: one destroyAll() per volatile type is issued, all      *)
(* outstanding at once.                                                    *)
VolatileDestroyAllCall(c, op) ==
    /\ ProcessRunning
    /\ calls[c].pc = "idle"
    /\ calls' = [calls EXCEPT ![c] = [pc |-> op, op |-> op]]
    /\ sweeps' = sweeps \cup
           { [op |-> op, serial |-> FreshSerial, owner |-> c,
              pending |-> VOLATILE_TYPES, settled |-> FALSE] }
    /\ UNCHANGED <<db, now, config_vars, sync_vars, upserts_since_purge_count,
                   purge_scheduled, purge_last_date, sched, faults,
                   upserts_issued, outcome>>

DeleteVolatileRecordsCall(c) == VolatileDestroyAllCall(c, "deleteVolatileRecords")

CleanVolatileDataCall(c) == VolatileDestroyAllCall(c, "cleanVolatileData")

(* One of its destroyAll() executes, or fails.  Promise.all settles at the *)
(* first failure or when every one has succeeded; those still outstanding  *)
(* run either way.                                                         *)
VolatileDestroyAll(s, name, ok) ==
    LET pending == s.pending \ {name}
        settles == ~s.settled /\ (~ok \/ pending = {})
        rest == sweeps \ {s}
        left == IF pending = {} THEN {}
                ELSE { [s EXCEPT !.pending = pending, !.settled = @ \/ settles] }
    IN  /\ ProcessRunning
        /\ s \in sweeps
        /\ s.op \in {"deleteVolatileRecords", "cleanVolatileData"}
        /\ name \in s.pending
        /\ IF ok
           THEN /\ db' = [db EXCEPT ![table_name(name)] = {}]
                /\ sweeps' = Overlapped(rest) \cup left
                /\ faults' = faults
           ELSE /\ faults < MaxFaults
                /\ faults' = faults + 1
                /\ db' = db
                /\ sweeps' = rest \cup left
        /\ IF settles
           THEN /\ calls' = [calls EXCEPT ![s.owner] = Idle]
                /\ outcome' = Settled(s.op, <<>>, "", ok)
           ELSE UNCHANGED <<calls, outcome>>
        /\ UNCHANGED <<now, config_vars, sync_vars, upserts_since_purge_count,
                       purge_scheduled, purge_last_date, sched, upserts_issued>>

(* get({ids}): the rows, whatever their expiration.                        *)
get(name, ids) == GetRows(table_name(name), ids)

Get(name, ids) ==
    /\ ProcessRunning
    /\ outcome' = Returned("get", table_name(name), "", get(name, ids))
    /\ UNCHANGED <<read_frame, calls, faults>>

----------------------------------------------------------------------------
(* The program with one caller that awaits each call before the next; in   *)
(* SpecFaults the purges its upserts schedule run in the background of     *)
(* its calls.                                                              *)

NoCallInFlight == \A c \in Slots : calls[c].pc = "idle"

Caller == "c1"

(* The store and purge() called by the caller itself, who awaits it.      *)
(* Every statement succeeds; the threshold keeps its default, so no purge  *)
(* is scheduled.                                                           *)
Next ==
    \/ /\ NoCallInFlight
       /\ upserts_issued < MaxUpserts
       /\ \E t \in Targets, p \in Payloads, e \in ExpiresIns :
              UpsertCall(Caller, t[1], t[2], p, e)
    \/ \E c \in Slots : UpsertSelect(c, TRUE)
    \/ \E c \in Slots : UpsertUpdate(c, TRUE)
    \/ \E c \in Slots : UpsertInsert(c, TRUE)
    \/ NoCallInFlight /\ \E t \in ConsumeTargets : ConsumeSelect(Caller, t[1], t[2])
    \/ \E c \in Slots : ConsumeUpdate(c)
    \/ NoCallInFlight /\ \E t \in LookupTargets : FindCall(Caller, t[1], t[2])
    \/ \E c \in Slots : FindSelect(c, TRUE)
    \/ NoCallInFlight /\ \E t \in LookupTargets, u \in LookupUids :
                             FindByUidCall(Caller, t[1], u)
    \/ \E c \in Slots : FindByUidSelect(c, TRUE)
    \/ NoCallInFlight /\ \E t \in LookupTargets, u \in UserCodes :
                             FindByUserCodeCall(Caller, t[1], u)
    \/ \E c \in Slots : FindByUserCodeSelect(c, TRUE)
    \/ NoCallInFlight /\ \E t \in Targets : Destroy(t[1], t[2])
    \/ NoCallInFlight /\ \E n \in ModelNames, g \in GrantIds : RevokeByGrantId(n, g)
    \/ NoCallInFlight /\ \E n \in ModelNames : DestroyAll(n, TRUE)
    \/ NoCallInFlight /\ \E n \in ModelNames, ids \in GetIds : Get(n, ids)
    \/ NoCallInFlight /\ PurgeCall(Caller)
    \/ \E s \in sweeps, n \in VOLATILE_TYPES : PurgeStatement(s, n, TRUE)
    \/ Tick

Spec == Init /\ [][Next]_vars

(* The write path under storage failures: a statement of an upsert or of   *)
(* a purge may fail, up to MaxFaults times.                                *)
NextFaults ==
    \/ /\ NoCallInFlight
       /\ upserts_issued < MaxUpserts
       /\ \E t \in FaultTargets, p \in FaultPayloads, e \in FaultExpiresIns :
              UpsertCall(Caller, t[1], t[2], p, e)
    \/ \E c \in Slots, ok \in BOOLEAN : UpsertSelect(c, ok)
    \/ \E c \in Slots, ok \in BOOLEAN : UpsertUpdate(c, ok)
    \/ \E c \in Slots, ok \in BOOLEAN : UpsertInsert(c, ok)
    \/ /\ NoCallInFlight
       /\ \E d \in Delays, e \in Thresholds :
              setPurgeProperties([purge_single_execution_protection_delay |-> d,
                                  purge_every_upserts_count |-> e])
    \/ \E s \in sweeps, n \in VOLATILE_TYPES, ok \in BOOLEAN : PurgeStatement(s, n, ok)
    \/ NoCallInFlight /\ \E t \in LookupTargets : FindCall(Caller, t[1], t[2])
    \/ \E c \in Slots : FindSelect(c, TRUE)
    \/ NoCallInFlight /\ \E t \in LookupTargets, u \in LookupUids :
                             FindByUidCall(Caller, t[1], u)
    \/ \E c \in Slots : FindByUidSelect(c, TRUE)
    \/ NoCallInFlight /\ \E t \in LookupTargets, u \in UserCodes :
                             FindByUserCodeCall(Caller, t[1], u)
    \/ \E c \in Slots : FindByUserCodeSelect(c, TRUE)
    \/ NoCallInFlight /\ \E t \in LookupTargets, ids \in GetIds : Get(t[1], ids)
    \/ DelayElapsed
    \/ GetPurgeInfo
    \/ Tick

SpecFaults == Init /\ [][NextFaults]_vars

----------------------------------------------------------------------------
(* The older version under storage failures: its upsert, with the purge   *)
(* it awaits.                                                              *)
NextSync ==
    \/ /\ NoCallInFlight
       /\ upserts_issued < MaxUpserts
       /\ \E t \in FaultTargets, p \in FaultPayloads, e \in ExpiresIns :
              UpsertCallSync(Caller, t[1], t[2], p, e)
    \/ \E c \in Slots, ok \in BOOLEAN : PurgeExpired(c, ok)
    \/ \E c \in Slots, ok \in BOOLEAN : UpsertSelect(c, ok)
    \/ \E c \in Slots, ok \in BOOLEAN : UpsertUpdate(c, ok)
    \/ \E c \in Slots, ok \in BOOLEAN : UpsertInsert(c, ok)
    \/ NoCallInFlight /\ \E count \in PurgePeriods : setPurgePeriod(count)
    \/ NoCallInFlight /\ \E t \in LookupTargets : FindCall(Caller, t[1], t[2])
    \/ \E c \in Slots : FindSelect(c, TRUE)
    \/ NoCallInFlight /\ CleanVolatileDataCall(Caller)
    \/ \E s \in sweeps, n \in VOLATILE_TYPES : VolatileDestroyAll(s, n, TRUE)
    \/ Tick

SpecSync == Init /\ [][NextSync]_vars

(* The program with two callers whose calls overlap: a call of one may     *)
(* start and run while a call of the other awaits its statement.  Every    *)
(* statement succeeds.                                                     *)
NextConcurrent ==
    \/ /\ upserts_issued < MaxUpserts
       /\ \E c \in Slots, t \in ConcTargets, p \in Payloads, e \in ConcExpiresIns :
              UpsertCall(c, t[1], t[2], p, e)
    \/ \E c \in Slots : UpsertSelect(c, TRUE)
    \/ \E c \in Slots : UpsertUpdate(c, TRUE)
    \/ \E c \in Slots : UpsertInsert(c, TRUE)
    \/ \E t \in ConcTargets : Destroy(t[1], t[2])
    \/ \E t \in ConcTargets, g \in GrantIds : RevokeByGrantId(t[1], g)
    \/ /\ NoCallInFlight
       /\ \E d \in Delays, e \in ConcThresholds :
              setPurgeProperties([purge_single_execution_protection_delay |-> d,
                                  purge_every_upserts_count |-> e])
    \/ \E s \in sweeps, n \in VOLATILE_TYPES : PurgeStatement(s, n, TRUE)
    \/ DelayElapsed
    \/ Tick

SpecConcurrent == Init /\ [][NextConcurrent]_vars

----------------------------------------------------------------------------
(* Lookups and deleteVolatileRecords() beside the writes of another        *)
(* caller, under storage failures: the first caller upserts and calls      *)
(* deleteVolatileRecords(), the second looks up, and the calls of the two  *)
(* overlap.  The threshold keeps its default, so no purge is scheduled.    *)
Reader == "c2"

NextMaintenance ==
    \/ /\ upserts_issued < MaxUpserts
       /\ \E t \in MaintenanceTargets, p \in FaultPayloads, e \in ConcExpiresIns :
              UpsertCall(Caller, t[1], t[2], p, e)
    \/ \E ok \in BOOLEAN : UpsertSelect(Caller, ok)
    \/ \E ok \in BOOLEAN : UpsertUpdate(Caller, ok)
    \/ \E ok \in BOOLEAN : UpsertInsert(Caller, ok)
    \/ DeleteVolatileRecordsCall(Caller)
    \/ \E s \in sweeps, n \in VOLATILE_TYPES, ok \in BOOLEAN : VolatileDestroyAll(s, n, ok)
    \/ \E t \in LookupTargets, ok \in BOOLEAN : DestroyAll(t[1], ok)
    \/ \E t \in LookupTargets : FindCall(Reader, t[1], t[2])
    \/ \E ok \in BOOLEAN : FindSelect(Reader, ok)
    \/ \E t \in LookupTargets, u \in LookupUids : FindByUidCall(Reader, t[1], u)
    \/ \E ok \in BOOLEAN : FindByUidSelect(Reader, ok)
    \/ \E t \in LookupTargets, u \in UserCodes : FindByUserCodeCall(Reader, t[1], u)
    \/ \E ok \in BOOLEAN : FindByUserCodeSelect(Reader, ok)
    \/ Tick

SpecMaintenance == Init /\ [][NextMaintenance]_vars

----------
(* Properties.                                                             *)

(* The upsert of slot c, on the row id of table, executes its write in     *)
(* this step and is fulfilled with the row stored.                         *)
UpsertWrote(c, table, id) ==
    /\ calls[c].pc \in {"upsert_update", "upsert_insert"}
    /\ calls[c].table = table
    /\ calls[c].id = id
    /\ calls'[c].pc = "idle"
    /\ outcome'.ok
    /\ SelectById(table, id)' # {}

(* C1, expiration visibility: a record upserted at instant T with a ttl of *)
(* t seconds is found by its id while now < T + t and is not found once    *)
(* now >= T + t, for every ttl given, zero included.  Stated of the state  *)
(* in which the upsert returns.                                            *)
C1_ExpirationVisibility ==
    [][\A c \in Slots, table \in Tables, id \in Ids :
          (UpsertWrote(c, table, id) /\ ~IsNull(calls[c].expiresIn))
          => LET deadline == calls[c].at + Val(calls[c].expiresIn) * MsPerSecond
             IN  (FindRecord(table, id)' # {}) <=> (now' < deadline)]_vars

(* C1 for the ttls JavaScript holds true (not zero): the row is stored     *)
(* with expires_at = T + t, and in every state a lookup selects a row if   *)
(* and only if now is before the row's expires_at, whether or not a purge  *)
(* has deleted it.                                                         *)
C1_VisibilityOfTruthyTtl ==
    [][\A c \in Slots, table \in Tables, id \in Ids :
          (UpsertWrote(c, table, id) /\ Truthy(calls[c].expiresIn))
          => LET deadline == calls[c].at + Val(calls[c].expiresIn) * MsPerSecond
             IN  /\ \A r \in SelectById(table, id)' : r.expires_at = Some(deadline)
                 /\ (FindRecord(table, id)' # {}) <=> (now' < deadline)]_vars

(* C1, in every state: find, findByUid and findByUserCode select a row    *)
(* if and only if its expires_at is NULL or later than now.                *)
C1_LookupsHideExpired ==
    \A table \in Tables : \A r \in db[table] :
        LET hidden == ~IsNull(r.expires_at) /\ now >= Val(r.expires_at)
        IN  /\ (r \in FindRecord(table, r.id)) <=> ~hidden
            /\ \A u \in Uids :
                   JsonContains(r.data, "uid", u)
                   => ((r \in FindByRecord(table, "uid", u)) <=> ~hidden)
            /\ \A u \in UserCodes :
                   JsonContains(r.data, "userCode", u)
                   => ((r \in FindByRecord(table, "userCode", u)) <=> ~hidden)

(* A row is in table in this state and no row of its id is in the next.    *)
Removed(table, r) ==
    r \in db[table] /\ SelectById(table, r.id)' = {}

(* This step is a destroy, a revokeByGrantId or a destroyAll, called on    *)
(* its own or by deleteVolatileRecords().                                  *)
ExplicitDeletion ==
    \/ \E n \in ModelNames, id \in Ids : Destroy(n, id)
    \/ \E n \in ModelNames, g \in GrantIds : RevokeByGrantId(n, g)
    \/ \E n \in ModelNames : DestroyAll(n, TRUE)
    \/ \E s \in sweeps, n \in VOLATILE_TYPES : VolatileDestroyAll(s, n, TRUE)

(* C2, durability of records without a ttl: a row whose expires_at is NULL *)
(* leaves its table only in a destroy, revokeByGrantId or destroyAll step; *)
(* no purge statement removes it.                                          *)
C2_DurableUntilDeleted ==
    [][\A table \in Tables : \A r \in db[table] :
          (IsNull(r.expires_at) /\ Removed(table, r)) => ExplicitDeletion]_vars

(* A purge was the last call to write, it has run to its end, and a row    *)
(* without ttl is in a volatile table still, and found.                    *)
C2_Witness ==
    /\ sweeps = {}
    /\ outcome.op = "purge" /\ outcome.ok
    /\ \E table \in VolatileTables : \E r \in db[table] :
           /\ IsNull(r.expires_at)
           /\ r \in FindRecord(table, r.id)

(* schedulePurge() calls purge() in this step.                             *)
ScheduledPurgeStarts ==
    \E s \in sweeps' \ sweeps :
        s.owner = SCHED /\ s.pending = VOLATILE_TYPES /\ ~s.settled /\ ~s.dirty

(* C3, debounce of the purge: schedulePurge() starts a purge only with     *)
(* purge_scheduled false, when the purge it started before has completed   *)
(* and the protection delay after it has elapsed; purge_scheduled is true  *)
(* from that start until the delay has elapsed, and goes back to false no  *)
(* sooner.  Upserts crossing the threshold in between start nothing.       *)
C3_Debounce ==
    [][/\ ScheduledPurgeStarts
          => /\ ~purge_scheduled /\ purge_scheduled'
             /\ sched.phase = "idle"
             /\ \A s \in sweeps : s.owner # SCHED
             /\ now >= sched.due
       /\ (sched'.phase \in {"purging", "cooldown"}) => purge_scheduled'
       /\ (purge_scheduled /\ ~purge_scheduled')
          => sched.phase = "cooldown" /\ now >= sched.due]_vars

(* An upsert crossed the threshold while a purge was scheduled: the        *)
(* counter stays at or above the threshold and no second purge started.    *)
C3_Witness ==
    /\ purge_scheduled
    /\ sched.phase \in {"purging", "cooldown"}
    /\ upserts_since_purge_count >= purge_every_upserts_count
    /\ upserts_issued = 2
    /\ \A s \in sweeps : s.now = Val(purge_last_date)

(* A second scheduled purge has started, one protection delay or more      *)
(* after the first completed.                                              *)
C3_WitnessSecondPurge ==
    /\ sched.phase = "purging"
    /\ sched.due > 0
    /\ now >= sched.due
    /\ \E s \in sweeps : s.owner = SCHED /\ s.now >= sched.due

(* The purge s settles fulfilled in this step: the last of its DELETE      *)
(* statements executes and none has failed.                                *)
PurgeFulfils(s) ==
    /\ s \in sweeps
    /\ ~s.settled
    /\ \E name \in VOLATILE_TYPES : s.pending = {name} /\ PurgeStatement(s, name, TRUE)

(* C4, what a purge deletes: when a purge whose cutoff is the instant it   *)
(* was called at settles fulfilled, no other write having run meanwhile,   *)
(* get() on every volatile type returns none of the rows that had          *)
(* expires_at <= cutoff and every row that had expires_at > cutoff.        *)
C4_PurgeDeletesExpired ==
    [][\A s \in sweeps :
          (PurgeFulfils(s) /\ ~s.dirty)
          => \A name \in VOLATILE_TYPES :
                 \A r \in s.pre[table_name(name)] :
                     /\ (~IsNull(r.expires_at) /\ Val(r.expires_at) <= s.now)
                        => r \notin get(name, NULL)'
                     /\ (~IsNull(r.expires_at) /\ Val(r.expires_at) > s.now)
                        => r \in get(name, NULL)']_vars

(* A purge has executed its DELETE on a table that held a row expiring at  *)
(* the cutoff itself and a row expiring later: the first is gone, the      *)
(* second is there.                                                        *)
C4_Witness ==
    \E s \in sweeps, name \in VOLATILE_TYPES :
        /\ name \notin s.pending
        /\ ~s.dirty
        /\ \E r \in s.pre[table_name(name)] :
               r.expires_at = Some(s.now) /\ r \notin db[table_name(name)]
        /\ \E r \in s.pre[table_name(name)] :
               /\ ~IsNull(r.expires_at) /\ Val(r.expires_at) > s.now
               /\ r \in db[table_name(name)]

(* The upsert in flight in slot c can run the statement it is at.          *)
UpsertCanProceed(c) ==
    ENABLED (UpsertSelect(c, TRUE) \/ UpsertUpdate(c, TRUE) \/ UpsertInsert(c, TRUE))

(* C5, upsert is not blocked by the purge it triggers: in every state of a *)
(* running process an upsert in flight is at one of its own statements,    *)
(* the existence check, the update or the insert, and never waits for a    *)
(* purge to finish.                                                        *)
C5_UpsertNotBlocked ==
    ProcessRunning
    => \A c \in Slots :
           (calls[c].pc # "idle" /\ calls[c].op = "upsert") => UpsertCanProceed(c)

(* C5 in the version with the scheduled purge: the one upsert called so    *)
(* far has scheduled a purge and has returned, its row stored, before any  *)
(* DELETE of that purge has executed.                                      *)
C5_ReturnedBeforePurge ==
    /\ NoCallInFlight
    /\ upserts_issued = 1
    /\ outcome.op = "upsert" /\ outcome.ok
    /\ SelectById(outcome.table, outcome.key) # {}
    /\ sched.phase = "purging"
    /\ \E s \in sweeps : s.owner = SCHED /\ s.pending = VOLATILE_TYPES

(* The upsert of slot c returns in this step.                              *)
UpsertReturned(c) ==
    /\ calls[c].pc # "idle"
    /\ calls[c].op = "upsert"
    /\ calls'[c].pc = "idle"

(* A statement of upsert's own, not of a purge, fails in this step.        *)
OwnStatementFailed(c) ==
    /\ calls[c].pc \in {"upsert_select", "upsert_update", "upsert_insert"}
    /\ \/ faults' # faults
       \/ /\ calls[c].pc = "upsert_insert"
          /\ InsertConflicts(calls[c].table, calls[c].id)

(* C6, a failing purge does not fail the upsert that triggered it: an      *)
(* upsert is rejected if and only if one of its own statements failed.     *)
C6_UpsertOutcomeIsItsOwn ==
    [][\A c \in Slots :
          UpsertReturned(c)
          => /\ outcome'.op = "upsert"
             /\ outcome'.ok <=> ~OwnStatementFailed(c)]_vars

(* C6 in the version with the scheduled purge, the rejection of            *)
(* schedulePurge() being listened to: the one upsert called so far         *)
(* scheduled a purge, the purge failed, and the upsert returned fulfilled  *)
(* with its row stored.                                                    *)
C6_FulfilledAfterFailedPurge ==
    /\ NoCallInFlight
    /\ upserts_issued = 1
    /\ outcome.op = "upsert" /\ outcome.ok
    /\ SelectById(outcome.table, outcome.key) # {}
    /\ sched.phase = "rejected"

(* C7, the scheduler is never stuck: whenever purge_scheduled is true in a *)
(* running process, the schedulePurge() invocation that set it is alive,   *)
(* in its purge or in its protection delay, and will set it back to false. *)
C7_NeverStuck ==
    (ProcessRunning /\ purge_scheduled) => sched.phase \in {"purging", "cooldown"}

(* C7, what happens instead: once schedulePurge() has died of a purge's    *)
(* error, purge_scheduled is true in every later state and no scheduled    *)
(* purge starts again.                                                     *)
C7_StuckAfterFailure ==
    [][sched.phase = "rejected"
       => /\ sched'.phase = "rejected"
          /\ purge_scheduled'
          /\ ~ScheduledPurgeStarts]_vars

(* The consume of slot c, on the row id of table, executes its UPDATE in   *)
(* this step and returns.                                                  *)
ConsumeWrote(c, table, id) ==
    /\ calls[c].pc = "consume_update"
    /\ calls[c].table = table
    /\ calls[c].id = id
    /\ calls'[c].pc = "idle"

(* data is before with a consumed marker added, every other key as it was. *)
ConsumedOf(data, before) ==
    /\ DOMAIN data = DOMAIN before \cup {"consumed"}
    /\ \A k \in DOMAIN before \ {"consumed"} : data[k] = before[k]

(* C8, consume then find: when consume(id) has written a row that was      *)
(* there and not expired, find(id) returns its data with a consumed marker *)
(* and every other key as before, and the row's expires_at is as before.   *)
C8_ConsumeThenFind ==
    [][\A c \in Slots, name \in ModelNames, id \in Ids :
          ConsumeWrote(c, table_name(name), id)
          => \A r \in FindRecord(table_name(name), id) :
                 /\ \A found \in find(name, id, now)' :
                        ~IsNull(found) /\ ConsumedOf(Val(found), r.data)
                 /\ \A w \in SelectById(table_name(name), id)' :
                        w.expires_at = r.expires_at]_vars

(* A consume has returned, and the row it was about, one with a ttl that   *)
(* has not run out, is found with the marker and its other keys.           *)
C8_Witness ==
    /\ outcome.op = "consume" /\ outcome.ok
    /\ NoCallInFlight
    /\ \E r \in FindRecord(outcome.table, outcome.key) :
           /\ ~IsNull(r.expires_at)
           /\ "consumed" \in DOMAIN r.data
           /\ "grantId" \in DOMAIN r.data

(* C9, cascade revoke: revokeByGrantId(g) on a type deletes every row of   *)
(* the type whose data holds grantId g, expired or not, and no other row   *)
(* of the type; the other types' tables are as they were; afterwards find  *)
(* returns what it returned before for the rows left, and null for the     *)
(* others.                                                                 *)
C9_RevokeByGrantId ==
    [][\A name \in ModelNames, g \in GrantIds :
          RevokeByGrantId(name, g)
          => LET table == table_name(name) IN
             /\ \A r \in db[table] :
                    (r \in get(name, NULL)') <=> ~JsonContains(r.data, "grantId", g)
             /\ get(name, NULL)' \subseteq db[table]
             /\ \A t \in Tables \ {table} : db'[t] = db[t]
             /\ \A id \in Ids :
                    find(name, id, now)' =
                        IF \E r \in FindRecord(table, id) :
                               ~JsonContains(r.data, "grantId", g)
                        THEN find(name, id, now) ELSE {NULL}]_vars

(* revokeByGrantId("G1") has returned on a type two upserts wrote to: no   *)
(* row of the type holds G1, and a row holding G2 is there and found.      *)
C9_Witness ==
    /\ outcome.op = "revokeByGrantId" /\ outcome.key = "G1"
    /\ upserts_issued = 2
    /\ \A r \in db[outcome.table] : ~JsonContains(r.data, "grantId", "G1")
    /\ \E r \in db[outcome.table] :
           /\ JsonContains(r.data, "grantId", "G2")
           /\ r \in FindRecord(outcome.table, r.id)
    /\ \A t \in Tables \ {outcome.table} : db[t] = {}

(* C10, idempotent destroy: destroy(id) can be called and is fulfilled     *)
(* whether or not a row has the id; after it no row has the id and         *)
(* find(id) returns null; every other row is as it was, so a destroy of an *)
(* id that no row has, a second destroy in a row among them, changes       *)
(* nothing.                                                                *)
C10_DestroyIdempotent ==
    /\ [](\A name \in ModelNames, id \in Ids : ENABLED Destroy(name, id))
    /\ [][\A name \in ModelNames, id \in Ids :
             Destroy(name, id)
             => LET table == table_name(name) IN
                /\ outcome'.op = "destroy" /\ outcome'.ok
                /\ SelectById(table, id)' = {}
                /\ find(name, id, now)' = {NULL}
                /\ \A r \in db[table] : r.id # id => r \in db'[table]
                /\ SelectById(table, id) = {} => db' = db]_vars

(* A destroy has returned fulfilled: no row of its table has the id, find  *)
(* of the id returns null, and the table's other row is still there.       *)
C10_Witness ==
    /\ outcome.op = "destroy" /\ outcome.ok
    /\ SelectById(outcome.table, outcome.key) = {}
    /\ FirstData(FindRecord(outcome.table, outcome.key)) = {NULL}
    /\ \E r \in db[outcome.table] : r.id # outcome.key

(* C11, consume of a missing record: consume(id) called when no row of the *)
(* type has the id is rejected with an error in that very step, without an *)
(* UPDATE to follow, and the tables are as they were: it is never          *)
(* fulfilled and never creates a row.                                      *)
C11_ConsumeMissingFails ==
    [][\A c \in Slots, name \in ModelNames, id \in Ids :
          (ConsumeSelect(c, name, id) /\ SelectById(table_name(name), id) = {})
          => /\ outcome' = Settled("consume", table_name(name), id, FALSE)
             /\ calls'[c].pc = "idle"
             /\ db' = db]_vars

(* A consume has been rejected for an id no row of its type has, while     *)
(* rows are stored elsewhere, and no row of the id has appeared.           *)
C11_Witness ==
    /\ outcome.op = "consume" /\ ~outcome.ok
    /\ NoCallInFlight
    /\ SelectById(outcome.table, outcome.key) = {}
    /\ \E t \in Tables : db[t] # {}

(* A find, findByUid or findByUserCode is called or returns in this step,  *)
(* or a get returns.                                                       *)
ReadStep ==
    \/ \E c \in Slots : /\ calls'[c] # calls[c]
                         /\ "lookup" \in {calls[c].pc, calls'[c].pc}
    \/ outcome' # outcome /\ outcome'.op = "get"

(* C12, reads leave the scheduler alone: a step of find, findByUid,        *)
(* findByUserCode or get, its call or its return, changes neither the      *)
(* counter nor purge_scheduled nor purge_last_date, and starts no purge,   *)
(* whatever the counter is.                                                *)
C12_ReadsLeaveScheduler ==
    [][ReadStep
       => UNCHANGED <<upserts_since_purge_count, purge_scheduled,
                      purge_last_date, sched, sweeps, getPurgeInfo>>]_vars

(* A read has returned with the counter one below the threshold, and no    *)
(* purge is scheduled or running.                                          *)
C12_Witness ==
    /\ outcome.op \in {"find", "findByUid", "findByUserCode", "get"}
    /\ outcome.ok
    /\ NoCallInFlight
    /\ upserts_since_purge_count = purge_every_upserts_count - 1
    /\ upserts_since_purge_count > 0
    /\ ~purge_scheduled
    /\ sweeps = {}

(* C13, a ttl given to upsert, zero and negative included: the row the     *)
(* upsert stores has expires_at = T + ttl, T the instant of the call (in   *)
(* ms, ttl * 1000), and with ttl <= 0 find does not find it in the state   *)
(* the upsert returns in.                                                  *)
C13_TtlAlwaysSets ==
    [][\A c \in Slots, table \in Tables, id \in Ids :
          (UpsertWrote(c, table, id) /\ ~IsNull(calls[c].expiresIn))
          => /\ \A r \in SelectById(table, id)' :
                    r.expires_at =
                        Some(calls[c].at + Val(calls[c].expiresIn) * MsPerSecond)
             /\ Val(calls[c].expiresIn) <= 0 => FindRecord(table, id)' = {}]_vars

(* C13 for a negative ttl: an upsert with ttl < 0 has returned, and its    *)
(* row is stored with an expires_at in the past and is not found.          *)
C13_NegativeTtlExpired ==
    /\ outcome.op = "upsert" /\ outcome.ok
    /\ \E r \in SelectById(outcome.table, outcome.key) :
           ~IsNull(r.expires_at) /\ Val(r.expires_at) < 0
    /\ FindRecord(outcome.table, outcome.key) = {}

(* C14: however the upserts of two callers overlap, at most one purge      *)
(* started by upserts is in flight: while one is, the flag is set and the  *)
(* scheduler is in its purging phase, and the step that raises the flag is *)
(* the step that resets the counter and starts that one purge.             *)
ScheduledSweeps == {s \in sweeps : s.owner = SCHED}

C14_OneScheduledPurge ==
    /\ [](/\ Cardinality(ScheduledSweeps) <= 1
          /\ (\E s \in ScheduledSweeps : ~s.settled)
                 => purge_scheduled /\ sched.phase = "purging")
    /\ [][ScheduledPurgeStarts
              => /\ ~purge_scheduled /\ purge_scheduled'
                 /\ ScheduledSweeps = {}
                 /\ upserts_since_purge_count' = 0]_vars

(* Two upserts are in flight at once, both were called with the counter at *)
(* the threshold, one purge is in flight and one of the two started it.    *)
C14_Witness ==
    /\ \A c \in Slots : calls[c].pc # "idle" /\ calls[c].op = "upsert"
    /\ Cardinality({c \in Slots : calls[c].scheduled}) = 1
    /\ upserts_since_purge_count >= purge_every_upserts_count
    /\ \E s \in ScheduledSweeps : ~s.settled

(* C15: purge_last_date, as getPurgeInfo() reports it, is the instant of   *)
(* the last completed purge: it changes only in the step in which the last *)
(* outstanding DELETE of a purge that has not failed succeeds, and then to *)
(* the instant of that step.                                               *)
PurgeCompletes ==
    \E s \in sweeps :
        /\ ~s.settled
        /\ Cardinality(s.pending) = 1
        /\ sweeps' = sweeps \ {s}
        /\ faults' = faults

C15_LastDateIsCompletion ==
    [][getPurgeInfo'.purge_last_date # getPurgeInfo.purge_last_date
           => /\ PurgeCompletes
              /\ getPurgeInfo'.purge_last_date = Some(now')]_vars

(* What the code does instead: the date is that of a purge none of whose   *)
(* DELETE statements has executed yet.                                     *)
C15_DateOfUnfinishedPurge ==
    /\ ~IsNull(getPurgeInfo.purge_last_date)
    /\ \E s \in sweeps : /\ s.pending = VOLATILE_TYPES
                         /\ Some(s.now) = getPurgeInfo.purge_last_date

(* C16: a failing DELETE of a purge does not stop the others, and purge()  *)
(* returns only when all of them are done: while the process runs, every   *)
(* DELETE still outstanding can execute, and no purge has settled with a   *)
(* DELETE outstanding.                                                     *)
C16_PurgeFailureIsolation ==
    ProcessRunning
    => \A s \in sweeps :
           s.op = "purge"
           => /\ \A name \in s.pending : ENABLED PurgeStatement(s, name, TRUE)
              /\ ~s.settled

(* The first half of C16 alone: while the process runs, the DELETE         *)
(* statements of a purge one of whose statements has failed can still      *)
(* execute.                                                                *)
C16_OthersStillRun ==
    ProcessRunning
    => \A s \in sweeps :
           s.op = "purge"
           => \A name \in s.pending : ENABLED PurgeStatement(s, name, TRUE)

(* A purge has been rejected with some of its DELETE statements still      *)
(* outstanding.                                                            *)
C16_RejectedWhileDeleting ==
    \E s \in sweeps :
        s.op = "purge" /\ s.settled /\ s.pending # {} /\ sched.phase = "rejected"

(* C17: a consumed marker, once in a row's data, stays for as long as the  *)
(* row exists: when a row with the marker is there and a row of that id is *)
(* there after the step, that row's data has the marker.                   *)
Consumed(table, id) ==
    \E r \in SelectById(table, id) : "consumed" \in DOMAIN r.data

C17_ConsumedNeverCleared ==
    [][\A table \in Tables, id \in Ids :
          (Consumed(table, id) /\ SelectById(table, id)' # {})
          => Consumed(table, id)']_vars

(* C18: after an upsert called without a ttl the row's expires_at is       *)
(* unset, also when the row was there with an expires_at, and the row is   *)
(* found at every instant.                                                 *)
C18_NoTtlUnsetsExpiry ==
    [][\A c \in Slots, table \in Tables, id \in Ids :
          (UpsertWrote(c, table, id) /\ IsNull(calls[c].expiresIn))
          => /\ \A r \in SelectById(table, id)' : IsNull(r.expires_at)
             /\ FindRecord(table, id)' # {}]_vars

(* C19, timestamps: no step changes the created_at of a row that stays; an *)
(* upsert that inserts leaves updated_at unset; an upsert that overwrites  *)
(* and a consume leave updated_at set.                                     *)
C19_Timestamps ==
    [][/\ \A table \in Tables, id \in Ids :
          \A r \in SelectById(table, id) : \A w \in SelectById(table, id)' :
              /\ w.created_at = r.created_at
              /\ \A c \in Slots :
                     (UpsertWrote(c, table, id) \/ ConsumeWrote(c, table, id))
                     => ~IsNull(w.updated_at)
       /\ \A c \in Slots, table \in Tables, id \in Ids :
              (UpsertWrote(c, table, id) /\ SelectById(table, id) = {})
              => \A w \in SelectById(table, id)' : IsNull(w.updated_at)]_vars

(* What holds of C19: all of it but the updated_at of consume, which is    *)
(* as it was; that of an overwriting upsert is the instant upsert took     *)
(* before its UPDATE.                                                      *)
C19_TimestampsOfUpsert ==
    [][/\ \A table \in Tables, id \in Ids :
          \A r \in SelectById(table, id) : \A w \in SelectById(table, id)' :
              /\ w.created_at = r.created_at
              /\ \A c \in Slots :
                     UpsertWrote(c, table, id)
                     => w.updated_at = Some(calls[c].update_props.updated_at)
              /\ \A c \in Slots :
                     ConsumeWrote(c, table, id) => w.updated_at = r.updated_at
       /\ \A c \in Slots, table \in Tables, id \in Ids :
              (UpsertWrote(c, table, id) /\ SelectById(table, id) = {})
              => \A w \in SelectById(table, id)' : IsNull(w.updated_at)]_vars

(* C20: an upsert with a ttl above zero that returns success has stored    *)
(* its record, whatever purge, destroy or revokeByGrantId ran between its  *)
(* existence check and its write: in the state in which it returns, a row  *)
(* of its id with its payload is in the table.                             *)
UpsertSucceeds(c, table, id) ==
    /\ calls[c].pc \in {"upsert_update", "upsert_insert"}
    /\ calls[c].table = table
    /\ calls[c].id = id
    /\ calls'[c].pc = "idle"
    /\ outcome' = Settled("upsert", table, id, TRUE)

C20_UpsertStores ==
    [][\A c \in Slots, table \in Tables, id \in Ids :
          (UpsertSucceeds(c, table, id) /\ ~IsNull(calls[c].expiresIn)
               /\ Val(calls[c].expiresIn) > 0)
          => \E r \in SelectById(table, id)' :
                 r.data = calls[c].update_props.data]_vars

(* C21, a purge never deletes a live record: a DELETE statement of a purge *)
(* removes only rows of its own volatile table whose expires_at is at or   *)
(* before the instant the purge was called at; every row that is not       *)
(* expired at the instant the statement executes stays as it is, a row     *)
(* written while the purge was in flight included, and the table of the    *)
(* Client type is as it was.                                               *)
C21_PurgeSparesLive ==
    [][\A s \in sweeps, name \in VOLATILE_TYPES :
          PurgeStatement(s, name, TRUE)
          => /\ \A table \in Tables : \A r \in db[table] :
                    /\ NotExpiredAt(r, now) => r \in db'[table]
                    /\ r \notin db'[table]
                           => /\ table = table_name(name)
                              /\ ~IsNull(r.expires_at)
                              /\ Val(r.expires_at) <= s.now
             /\ db'[table_name("Client")] = db[table_name("Client")]]_vars

(* A purge has executed its DELETE on a table in which a row had expired   *)
(* when the purge was called; an upsert with a ttl overwrote the row while *)
(* the purge was in flight, and the row is there, found by its id.         *)
C21_Witness ==
    \E s \in sweeps, name \in VOLATILE_TYPES :
        /\ name \notin s.pending
        /\ s.dirty
        /\ \E r \in s.pre[table_name(name)] :
               /\ ~IsNull(r.expires_at) /\ Val(r.expires_at) <= s.now
               /\ \E w \in FindRecord(table_name(name), r.id) :
                      /\ ~IsNull(w.updated_at)
                      /\ ~IsNull(w.expires_at) /\ Val(w.expires_at) > now

(* A purge has run to its end and a row of the Client type whose           *)
(* expires_at has passed is still in its table.                            *)
C21_WitnessClient ==
    /\ sweeps = {}
    /\ ~IsNull(purge_last_date)
    /\ \E r \in db[table_name("Client")] :
           ~IsNull(r.expires_at) /\ Val(r.expires_at) <= Val(purge_last_date)

(* C1 of a lookup in flight: what find returns is what a query built at    *)
(* the instant its SELECT runs would return.  It is not: the date is the   *)
(* one of the instant the query was built.                                 *)
C1_FindDateIsSelectDate ==
    [][\A c \in Slots :
          (/\ calls[c].pc = "lookup" /\ calls[c].op = "find"
           /\ calls'[c].pc = "idle" /\ outcome'.ok)
          => outcome'.value \in find(calls[c].name, calls[c].key, now)]_vars

(* C6 in the version with the scheduled purge, the rejection of            *)
(* schedulePurge() unhandled: the process has ended at the failed purge    *)
(* with the upsert that scheduled it in flight, its row not stored.        *)
C6_EndedBeforeUpsertSettled ==
    /\ ~ProcessRunning
    /\ upserts_issued = 1
    /\ \E c \in Slots :
           /\ calls[c].pc # "idle" /\ calls[c].op = "upsert"
           /\ SelectById(calls[c].table, calls[c].id) = {}

====
